---- MODULE Spec2Model ----
(***************************************************************************)
(* pyshapelets/util.py: z-normalisation, Pearson correlation, the          *)
(* correlation-derived distance, and the statistic arrays (prefix sums     *)
(* and the product matrix M) that answer windowed queries.                 *)
(*                                                                         *)
(* Arithmetic.  numpy computes every mean, standard deviation, quotient    *)
(* and square root of the source in IEEE-754 binary64 (float64), rounding  *)
(* each operation to nearest, ties to even, and dividing by zero silently  *)
(* (NaN or +-Inf).  The model computes the same bits.  A float is a record *)
(* [k, s, m, e]:                                                           *)
(*   k = "num" : the value s * m * 2^e, with sign s \in {-1, 1} and a      *)
(*               53-bit significand m (2^52 <= m < 2^53) held as a         *)
(*               little-endian sequence of base-2^15 digits, so that the   *)
(*               106-bit products stay exact in the checker's integers     *)
(*   k = "zero": 0;  k = "nan": NaN;  k = "inf": s * Inf                   *)
(* Equal values have equal records.  The exponent is unbounded: overflow   *)
(* and subnormals do not occur for the inputs of the model.  The sign of   *)
(* zero is not kept; it could only change the sign of an Inf.              *)
(*                                                                         *)
(* The one operation that is not correctly rounded is the scalar power     *)
(* mu ** 2 of pearson_metrics, which numpy hands to the C library's pow:   *)
(* it is a choice among the floats next to the exact square (FPowTwo).     *)
(*                                                                         *)
(* Integer arrays (np.cumsum of integer input, the exact integer values    *)
(* held in M) are plain integers.                                          *)
(***************************************************************************)
EXTENDS Integers, Sequences, FiniteSets, TLC

\* Bounds of the model: the longest input sequence and the largest element.
MaxLen == 3
MaxVal == 1

\* Element values: three consecutive integers ending at MaxVal.
Vals == (MaxVal - 2)..MaxVal

\* Element values of the sequences handed to the correlation functions: two
\* consecutive positive integers, small draws of the np.random.randint of the
\* source's own test.
CorrVals == MaxVal..(MaxVal + 1)

\* A direct call gets the sequence x / den: integers (den = 1) or decimal
\* fractions such as 0.1 (den = 10), which binary64 cannot hold exactly.
Dens == {1, 10}

-----------------------------------------------------------------------------
\* Unsigned integers of any size: little-endian digit sequences without
\* leading zero digits; <<>> is 0.

Limb == 32768

RECURSIVE Pow2(_)
Pow2(k) == IF k = 0 THEN 1 ELSE 2 * Pow2(k - 1)

\* The number of bits of a machine integer a >= 0.
RECURSIVE BitLen(_)
BitLen(a) == IF a = 0 THEN 0 ELSE 1 + BitLen(a \div 2)

RECURSIVE BTrim(_)
BTrim(a) ==
    IF a = <<>> THEN a
    ELSE IF a[Len(a)] = 0 THEN BTrim(SubSeq(a, 1, Len(a) - 1)) ELSE a

RECURSIVE BFromInt(_)
BFromInt(a) == IF a = 0 THEN <<>> ELSE <<a % Limb>> \o BFromInt(a \div Limb)

\* a + b + c, c a carry
RECURSIVE BAddC(_, _, _)
BAddC(a, b, c) ==
    IF a = <<>> /\ b = <<>> THEN (IF c = 0 THEN <<>> ELSE <<c>>)
    ELSE LET s == (IF a = <<>> THEN 0 ELSE a[1]) + (IF b = <<>> THEN 0 ELSE b[1]) + c
         IN  <<s % Limb>> \o BAddC(IF a = <<>> THEN a ELSE Tail(a),
                                   IF b = <<>> THEN b ELSE Tail(b), s \div Limb)

BAdd(a, b) == BAddC(a, b, 0)

\* a - b - c for a >= b + c, c a borrow
RECURSIVE BSubC(_, _, _)
BSubC(a, b, c) ==
    IF a = <<>> THEN <<>>
    ELSE LET d == a[1] - (IF b = <<>> THEN 0 ELSE b[1]) - c
         IN  <<d % Limb>> \o BSubC(Tail(a), IF b = <<>> THEN b ELSE Tail(b),
                                   IF d < 0 THEN 1 ELSE 0)

BSub(a, b) == BTrim(BSubC(a, b, 0))

RECURSIVE BCmpAt(_, _, _)
BCmpAt(a, b, i) ==
    IF i = 0 THEN 0
    ELSE IF a[i] # b[i] THEN (IF a[i] < b[i] THEN -1 ELSE 1)
    ELSE BCmpAt(a, b, i - 1)

\* -1, 0 or 1 as a < b, a = b or a > b
BCmp(a, b) ==
    IF Len(a) # Len(b) THEN (IF Len(a) < Len(b) THEN -1 ELSE 1)
    ELSE BCmpAt(a, b, Len(a))

\* a * d + c for one digit d and a carry c
RECURSIVE BMulSmall(_, _, _)
BMulSmall(a, d, c) ==
    IF a = <<>> THEN (IF c = 0 THEN <<>> ELSE <<c>>)
    ELSE LET p == a[1] * d + c
         IN  <<p % Limb>> \o BMulSmall(Tail(a), d, p \div Limb)

RECURSIVE BMul(_, _)
BMul(a, b) ==
    IF a = <<>> \/ b = <<>> THEN <<>>
    ELSE LET hi == BMul(a, Tail(b))
         IN  BAdd(BTrim(BMulSmall(a, b[1], 0)), IF hi = <<>> THEN hi ELSE <<0>> \o hi)

\* a * 2^k
BShl(a, k) ==
    IF a = <<>> THEN a
    ELSE [i \in 1..(k \div 15) |-> 0] \o BMulSmall(a, Pow2(k % 15), 0)

\* The digits 1..i of a \div d for one digit d, r the remainder carried down.
RECURSIVE BDivSmallAt(_, _, _, _)
BDivSmallAt(a, d, i, r) ==
    IF i = 0 THEN <<>>
    ELSE LET cur == r * Limb + a[i]
         IN  BDivSmallAt(a, d, i - 1, cur % d) \o <<cur \div d>>

\* a \div 2^k
BShr(a, k) ==
    IF Len(a) <= k \div 15 THEN <<>>
    ELSE LET hi == SubSeq(a, (k \div 15) + 1, Len(a))
         IN  BTrim(BDivSmallAt(hi, Pow2(k % 15), Len(hi), 0))

\* The number of bits of a.
BBits(a) == IF a = <<>> THEN 0 ELSE 15 * (Len(a) - 1) + BitLen(a[Len(a)])

\* Bit i of a (bit 0 is the lowest).
BBit(a, i) ==
    IF (i \div 15) + 1 > Len(a) THEN 0
    ELSE (a[(i \div 15) + 1] \div Pow2(i % 15)) % 2

\* The k lowest bits of a are all 0.
BLowZero(a, k) ==
    /\ \A j \in 1..(k \div 15) : j > Len(a) \/ a[j] = 0
    /\ \/ (k \div 15) + 1 > Len(a)
       \/ a[(k \div 15) + 1] % Pow2(k % 15) = 0

\* Long division.  The divisor b is scaled so that its top digit is at least
\* Limb / 2; the digit estimated from the two top digits of the running
\* remainder r is then at most 2 too large.
RECURSIVE QFix(_, _, _)
QFix(r, b, q) == IF BCmp(BTrim(BMulSmall(b, q, 0)), r) > 0 THEN QFix(r, b, q - 1) ELSE q

QDigit(r, b) ==
    IF BCmp(r, b) < 0 THEN 0
    ELSE LET nb  == Len(b)
             top == (IF Len(r) > nb THEN r[nb + 1] ELSE 0) * Limb + r[nb]
             est == top \div b[nb]
         IN  QFix(r, b, IF est > Limb - 1 THEN Limb - 1 ELSE est)

RECURSIVE BDivLoop(_, _, _, _, _)
BDivLoop(a, b, i, q, r) ==
    IF i = 0 THEN <<BTrim(q), r>>
    ELSE LET Sub(r1, d) ==
                 BDivLoop(a, b, i - 1, <<d>> \o q, BSub(r1, BTrim(BMulSmall(b, d, 0))))
             Digit(r1) == Sub(r1, QDigit(r1, b))
         IN  Digit(BTrim(<<a[i]>> \o r))

\* <<a \div b, r>> for b > 0, where r = <<>> exactly if b divides a.
BDivMod(a, b) ==
    LET s  == 15 - BitLen(b[Len(b)])
        an == BShl(a, s)
    IN  BDivLoop(an, BShl(b, s), Len(an), <<>>, <<>>)

\* Newton's iteration from a start g above the root, on machine integers and
\* on digit sequences: the integer square root.
RECURSIVE ISqrtFrom(_, _)
ISqrtFrom(a, g) ==
    LET h == (g + a \div g) \div 2 IN IF h >= g THEN g ELSE ISqrtFrom(a, h)

RECURSIVE BSqrtFrom(_, _)
BSqrtFrom(a, g) ==
    LET Step(h) == IF BCmp(h, g) >= 0 THEN g ELSE BSqrtFrom(a, h)
    IN  Step(BShr(BAdd(g, BDivMod(a, g)[1]), 1))

BSqrt(a) ==
    IF a = <<>> THEN a
    ELSE LET k   == IF Len(a) % 2 = 0 THEN 2 ELSE 1
             top == IF k = 2 THEN a[Len(a)] * Limb + a[Len(a) - 1] ELSE a[Len(a)]
             g   == ISqrtFrom(top, Limb) + 1
         IN  BSqrtFrom(a, [i \in 1..((Len(a) - k) \div 2) |-> 0] \o BFromInt(g))

-----------------------------------------------------------------------------
\* binary64 arithmetic, as numpy performs it on float64 scalars and arrays

Precision == 53

FNum(s, mt, e) == [k |-> "num", s |-> s, m |-> mt, e |-> e]

FZero == [k |-> "zero", s |-> 1, m |-> <<>>, e |-> 0]

FNaN == [k |-> "nan", s |-> 1, m |-> <<>>, e |-> 0]

FInf(s) == [k |-> "inf", s |-> s, m |-> <<>>, e |-> 0]

\* The float nearest to s * (mt + f) * 2^e, for an integer mt > 0 and a
\* fraction f that is 0 if st = 0 and lies strictly between 0 and 1 if st = 1
\* (then mt has more than Precision + 1 bits); ties go to the even significand.
FRound(s, mt, e, st) ==
    LET Carry(q1, sh) ==
            IF BBits(q1) > Precision THEN FNum(s, BShr(q1, 1), e + sh + 1)
            ELSE FNum(s, q1, e + sh)
        Up(q, sh) ==
            /\ BBit(mt, sh - 1) = 1
            /\ \/ st = 1
               \/ ~BLowZero(mt, sh - 1)
               \/ q[1] % 2 = 1
        Cut(q, sh) == Carry(IF Up(q, sh) THEN BAdd(q, <<1>>) ELSE q, sh)
        Bits(b) ==
            IF b <= Precision THEN FNum(s, BShl(mt, Precision - b), e - (Precision - b))
            ELSE Cut(BShr(mt, b - Precision), b - Precision)
    IN  Bits(BBits(mt))

\* An integer as a float.
FromInt(a) ==
    IF a = 0 THEN FZero
    ELSE FRound(IF a < 0 THEN -1 ELSE 1, BFromInt(IF a < 0 THEN -a ELSE a), 0, 0)

FNeg(a) == [a EXCEPT !.s = IF a.k \in {"num", "inf"} THEN -a.s ELSE a.s]

FAbs(a) == [a EXCEPT !.s = 1]

\* a + b
FAdd(a, b) ==
    IF a.k = "nan" \/ b.k = "nan" THEN FNaN
    ELSE IF a.k = "inf" THEN (IF b.k = "inf" /\ b.s # a.s THEN FNaN ELSE a)
    ELSE IF b.k = "inf" THEN b
    ELSE IF a.k = "zero" THEN b
    ELSE IF b.k = "zero" THEN a
    ELSE LET Sum(ma, mb, c, e) ==
                 IF a.s # b.s /\ c = 0 THEN FZero
                 ELSE FRound(IF a.s = b.s \/ c > 0 THEN a.s ELSE b.s,
                             IF a.s = b.s THEN BAdd(ma, mb)
                             ELSE IF c > 0 THEN BSub(ma, mb) ELSE BSub(mb, ma),
                             e, 0)
             Aligned(ma, mb, e) == Sum(ma, mb, BCmp(ma, mb), e)
             Align(e) == Aligned(BShl(a.m, a.e - e), BShl(b.m, b.e - e), e)
         IN  Align(IF a.e < b.e THEN a.e ELSE b.e)

\* a - b
FSub(a, b) == FAdd(a, FNeg(b))

\* a * b
FMul(a, b) ==
    IF a.k = "nan" \/ b.k = "nan" THEN FNaN
    ELSE IF a.k = "inf" \/ b.k = "inf"
         THEN (IF a.k = "zero" \/ b.k = "zero" THEN FNaN ELSE FInf(a.s * b.s))
    ELSE IF a.k = "zero" \/ b.k = "zero" THEN FZero
    ELSE FRound(a.s * b.s, BMul(a.m, b.m), a.e + b.e, 0)

\* The positive float next to mt * 2^e, for an integer mt > 0: the one below
\* it (inc = 0) or the one above it (inc = 1); mt * 2^e itself if it is a float.
FChop(mt, e, inc) ==
    LET Carry(q1, sh) ==
            IF BBits(q1) > Precision THEN FNum(1, BShr(q1, 1), e + sh + 1)
            ELSE FNum(1, q1, e + sh)
        Cut(q, sh) ==
            Carry(IF inc = 1 /\ ~BLowZero(mt, sh) THEN BAdd(q, <<1>>) ELSE q, sh)
        Bits(b) ==
            IF b <= Precision THEN FNum(1, BShl(mt, Precision - b), e - (Precision - b))
            ELSE Cut(BShr(mt, b - Precision), b - Precision)
    IN  Bits(BBits(mt))

\* a ** 2 for a float64 scalar a.  numpy calls the C library's pow(a, 2.0),
\* which is not correctly rounded: its error stays below one unit in the last
\* place, so the result is a * a if that is a float and otherwise one of the
\* two floats next to a * a, whichever the library of the build returns.  The
\* set of these results.
FPowTwo(a) ==
    IF a.k = "nan" THEN {FNaN}
    ELSE IF a.k = "inf" THEN {FInf(1)}
    ELSE IF a.k = "zero" THEN {FZero}
    ELSE {FChop(BMul(a.m, a.m), a.e + a.e, inc) : inc \in {0, 1}}

\* a / b; numpy warns about a division by zero and returns NaN or +-Inf.
\* The quotient of the significands is taken with 60 extra bits; a divisor
\* significand d * 2^45 (a small integer times a power of two) is cancelled
\* against 45 of them.
FDiv(a, b) ==
    IF a.k = "nan" \/ b.k = "nan" THEN FNaN
    ELSE IF a.k = "inf" THEN (IF b.k = "inf" THEN FNaN ELSE FInf(a.s * b.s))
    ELSE IF b.k = "inf" THEN FZero
    ELSE IF b.k = "zero" THEN (IF a.k = "zero" THEN FNaN ELSE FInf(a.s))
    ELSE IF a.k = "zero" THEN FZero
    ELSE LET Quot(qr) ==
                 FRound(a.s * b.s, qr[1], a.e - b.e - 60, IF qr[2] = <<>> THEN 0 ELSE 1)
         IN  Quot(IF b.m[1] = 0 /\ b.m[2] = 0 /\ b.m[3] = 0
                  THEN BDivMod(BShl(a.m, 15), <<b.m[4]>>)
                  ELSE BDivMod(BShl(a.m, 60), b.m))

\* np.sqrt(a); NaN for a < 0.
FSqrt(a) ==
    IF a.k = "nan" THEN FNaN
    ELSE IF a.k = "zero" THEN FZero
    ELSE IF a.s < 0 THEN FNaN
    ELSE IF a.k = "inf" THEN a
    ELSE LET Root(w, r, sh) ==
                 FRound(1, r, (a.e - sh) \div 2, IF BMul(r, r) = w THEN 0 ELSE 1)
             Scaled(w, sh) == Root(w, BSqrt(w), sh)
             Shift(sh) == Scaled(BShl(a.m, sh), sh)
         IN  Shift(IF a.e % 2 = 0 THEN 66 ELSE 67)

\* The sign of a - b for a and b that are not NaN: -1, 0 or 1.
FCmp(a, b) ==
    IF a = b THEN 0
    ELSE LET Sign(d) == IF d.k = "zero" THEN 0 ELSE d.s
         IN  Sign(FSub(a, b))

IsNaN(a) == a.k = "nan"

IsFinite(a) == a.k \in {"num", "zero"}

\* a <= b; false if either is NaN, as every comparison with NaN is.
FLe(a, b) == ~IsNaN(a) /\ ~IsNaN(b) /\ FCmp(a, b) <= 0

\* 1.0 = 2^52 * 2^-52 and 2.0 = 2^52 * 2^-51
FOne == FNum(1, <<0, 0, 0, 128>>, -52)

FTwo == FNum(1, <<0, 0, 0, 128>>, -51)

\* np.testing.assert_almost_equal(a, b) passes: numpy's default of 7 decimals,
\* abs(a - b) < 1.5e-7, with NaN equal only to NaN and Inf only to itself.
AlmostEqual(a, b) ==
    IF IsNaN(a) \/ IsNaN(b) THEN IsNaN(a) /\ IsNaN(b)
    ELSE IF a.k = "inf" \/ b.k = "inf" THEN a = b
    ELSE FCmp(FAbs(FSub(a, b)), FDiv(FromInt(15), FromInt(100000000))) < 0

-----------------------------------------------------------------------------
\* Arrays are functions on 0 .. len-1, as in the source.

Len0(a) == Cardinality(DOMAIN a)

\* a[lo:hi]
Slice(a, lo, hi) == [i \in 0..(hi - lo - 1) |-> a[lo + i]]

\* The float64 array a / den of an integer array a.
Arr(a, den) ==
    [i \in DOMAIN a |-> IF den = 1 THEN FromInt(a[i]) ELSE FDiv(FromInt(a[i]), FromInt(den))]

\* The sum of the first k >= 1 elements, added from left to right as
\* np.add.reduce adds the arrays of fewer than 8 elements that occur here.
RECURSIVE SumTo(_, _)
SumTo(a, k) == IF k = 1 THEN a[0] ELSE FAdd(SumTo(a, k - 1), a[k - 1])

\* np.sum(a)
NpSum(a) == SumTo(a, Len0(a))

\* np.mean(a)
NpMean(a) == FDiv(NpSum(a), FromInt(Len0(a)))

\* np.std(a) = sqrt(mean((a - mean(a)) * (a - mean(a))))
NpStd(a) ==
    LET mu == NpMean(a)
        Sq(d) == FMul(d, d)
    IN  FSqrt(NpMean([i \in DOMAIN a |-> Sq(FSub(a[i], mu))]))

\* np.linalg.norm(a) = sqrt(a.dot(a))
NpNorm(a) == FSqrt(NpSum([i \in DOMAIN a |-> FMul(a[i], a[i])]))

z_norm_NoCentering(x) ==
    LET sigma_x == NpStd(x)
    IN  [i \in DOMAIN x |-> FDiv(x[i], sigma_x)]

z_norm(x) ==
    LET mu_x    == NpMean(x)
        sigma_x == NpStd(x)
    IN  [i \in DOMAIN x |-> FDiv(FSub(x[i], mu_x), sigma_x)]

norm_euclidean_distance_NoLengthNorm(x, y) ==
    NpNorm([i \in DOMAIN x |-> FSub(x[i], y[i])])

norm_euclidean_distance(x, y) ==
    FMul(FDiv(FOne, FSqrt(FromInt(Len0(x)))),
         NpNorm([i \in DOMAIN x |-> FSub(x[i], y[i])]))

\* Lines 21-25 of pearson: the means, the standard deviations and the length.
pearson_locals(x, y) ==
    [mu_x |-> NpMean(x), sigma_x |-> NpStd(x),
     mu_y |-> NpMean(y), sigma_y |-> NpStd(y), m |-> FromInt(Len0(x))]

\* The divisor m * sigma_x * sigma_y of line 26.
pearson_divisor(p) == FMul(FMul(p.m, p.sigma_x), p.sigma_y)

\* Line 26: (np.sum(x * y) - (m * mu_x * mu_y)) / (m * sigma_x * sigma_y)
pearson_return(p, x, y) ==
    FDiv(FSub(NpSum([i \in DOMAIN x |-> FMul(x[i], y[i])]),
              FMul(FMul(p.m, p.mu_x), p.mu_y)),
         pearson_divisor(p))

pearson(x, y) == pearson_return(pearson_locals(x, y), x, y)

\* np.sqrt(2 * (1 - r)), the expression of lines 75 and 79
DistOf(r) == FSqrt(FMul(FTwo, FSub(FOne, r)))

pearson_dist(x, y) == DistOf(pearson(x, y))

-----------------------------------------------------------------------------
\* calculate_metric_arrays and the windowed queries

\* np.append([0], np.cumsum(a)) for an integer array a.
RECURSIVE CumsumAt(_, _)
CumsumAt(a, i) == IF i = 0 THEN 0 ELSE CumsumAt(a, i - 1) + a[i - 1]

Cumsum0_NoLeadingZero(a) == [i \in 0..(Len0(a) - 1) |-> CumsumAt(a, i + 1)]

Cumsum0(a) == [i \in 0..Len0(a) |-> CumsumAt(a, i)]

\* np.power(a, 2)
Power2(a) == [i \in DOMAIN a |-> a[i] * a[i]]

\* np.zeros((rows, cols))
Zeros(rows, cols) == [i \in 0..(rows - 1) |-> [j \in 0..(cols - 1) |-> 0]]

Abs(a) == IF a < 0 THEN -a ELSE a

\* The index into x and the index into y that iteration (u, v) reads.
IndexX_NoOffsetBase(u, v) == IF u > v THEN u + Abs(u - v) ELSE u

IndexX(u, v) == IF u > v THEN v + Abs(u - v) ELSE u

IndexY(u, v) == IF u > v THEN v ELSE u + Abs(u - v)

\* The cell of M that iteration (u, v) reads and the cell it writes.
ReadCell_SameRow(u, v) == <<u + 1, v>>

ReadCell(u, v) == <<u, v>>

WriteCell_SameColumn(u, v) == <<u + 1, v>>

WriteCell(u, v) == <<u + 1, v + 1>>

\* (S[u + l] - S[u]) / l
WindowMean(u, l, S) == FDiv(FromInt(S[u + l] - S[u]), FromInt(l))

\* np.sqrt((S2[u + l] - S2[u]) / l - mu ** 2), where sq is the value that
\* mu ** 2 has.
WindowSigma(u, l, S2, sq) ==
    FSqrt(FSub(FDiv(FromInt(S2[u + l] - S2[u]), FromInt(l)), sq))

\* M[u + l, v + l] - M[u, v]
CrossTerm(u, v, l, Mx) == Mx[u + l][v + l] - Mx[u][v]

\* Lines 32-36 of pearson_metrics: the window means, standard deviations and
\* cross term recovered from the arrays, and the window length.  The set of
\* the values the locals can have: one for each pair of results of mu_x ** 2
\* and mu_y ** 2, which are the same result when mu_x = mu_y.
pearson_metrics_locals(u, v, l, Sx, Sx2, Sy, Sy2, Mx) ==
    LET Sigmas(mu_x, mu_y) ==
            {[mu_x |-> mu_x, mu_y |-> mu_y,
              sigma_x |-> WindowSigma(u, l, Sx2, sq[1]),
              sigma_y |-> WindowSigma(v, l, Sy2, sq[2]),
              xy |-> FromInt(CrossTerm(u, v, l, Mx)), l |-> FromInt(l)] :
                sq \in {s \in FPowTwo(mu_x) \X FPowTwo(mu_y) :
                           mu_x = mu_y => s[1] = s[2]}}
    IN  Sigmas(WindowMean(u, l, Sx), WindowMean(v, l, Sy))

\* The divisor l * sigma_x * sigma_y of line 37.
pearson_metrics_divisor(p) == FMul(FMul(p.l, p.sigma_x), p.sigma_y)

\* Line 37: (xy - (l * mu_x * mu_y)) / (l * sigma_x * sigma_y)
pearson_metrics_return(p) ==
    FDiv(FSub(p.xy, FMul(FMul(p.l, p.mu_x), p.mu_y)), pearson_metrics_divisor(p))

\* The set of the values pearson_metrics can return.
pearson_metrics(u, v, l, Sx, Sx2, Sy, Sy2, Mx) ==
    {pearson_metrics_return(p) :
        p \in pearson_metrics_locals(u, v, l, Sx, Sx2, Sy, Sy2, Mx)}

\* The set of the values pearson_dist_metrics can return.
pearson_dist_metrics(u, v, l, Sx, Sx2, Sy, Sy2, Mx) ==
    {DistOf(r) : r \in pearson_metrics(u, v, l, Sx, Sx2, Sy, Sy2, Mx)}

-----------------------------------------------------------------------------
\* State

VARIABLES
    x, y,                      \* the two input sequences (integer arrays)
    pc,                        \* "start", "loop", "done", "queried", "IndexError", "ret"
    S_x, S_x2, S_y, S_y2, M,   \* the statistic arrays under construction
    u, v,                      \* the loop counters of calculate_metric_arrays
    writes,                    \* how often the loop has assigned each cell of M
    rd,                        \* the indices into x and y read by the last iteration
    call                       \* the call of a metric function: its arguments
                               \* (the sequences are x / den and y / den), the
                               \* local values it computed (loc), the value r of
                               \* its inner call, and the value it returned (ret)

vars == <<x, y, pc, S_x, S_x2, S_y, S_y2, M, u, v, writes, rd, call>>

n == Len0(x)

m == Len0(y)

Arrays(V) == UNION {[0..(k - 1) -> V] : k \in 1..MaxLen}

NoCall ==
    [fn |-> "none", u |-> 0, v |-> 0, l |-> 0, den |-> 1, loc |-> <<>>,
     r |-> FNaN, ret |-> FNaN]

Fresh ==
    /\ pc = "start"
    /\ S_x = <<>> /\ S_x2 = <<>> /\ S_y = <<>> /\ S_y2 = <<>> /\ M = <<>>
    /\ u = 0 /\ v = 0
    /\ writes = <<>>
    /\ rd = <<>>
    /\ call = NoCall

Init == x \in Arrays(Vals) /\ y \in Arrays(Vals) /\ Fresh

InitCorr == x \in Arrays(CorrVals) /\ y \in Arrays(CorrVals) /\ Fresh

\* calculate_metric_arrays(x, y), lines 48-54: the prefix sums and the zero matrix.
Prefix ==
    /\ pc = "start"
    /\ S_x' = Cumsum0(x)
    /\ S_x2' = Cumsum0(Power2(x))
    /\ S_y' = Cumsum0(y)
    /\ S_y2' = Cumsum0(Power2(y))
    /\ M' = Zeros(n + 1, m + 1)
    /\ writes' = Zeros(n + 1, m + 1)
    /\ u' = 0 /\ v' = 0
    /\ pc' = "loop"
    /\ UNCHANGED <<x, y, rd, call>>

\* One iteration (u, v) of the nested loop, lines 55-61.  Reading past the end
\* of x or y raises IndexError.
LoopStep ==
    /\ pc = "loop"
    /\ u < n
    /\ LET ix == IndexX(u, v)
           iy == IndexY(u, v)
           r == ReadCell(u, v)
           w == WriteCell(u, v)
       IN /\ rd' = <<ix, iy>>
          /\ IF ix >= n \/ iy >= m
             THEN /\ pc' = "IndexError"
                  /\ UNCHANGED <<M, writes, u, v>>
             ELSE /\ M' = [M EXCEPT ![w[1]][w[2]] = M[r[1]][r[2]] + x[ix] * y[iy]]
                  /\ writes' = [writes EXCEPT ![w[1]][w[2]] = @ + 1]
                  /\ IF v + 1 < m
                     THEN u' = u /\ v' = v + 1
                     ELSE u' = u + 1 /\ v' = 0
                  /\ pc' = pc
    /\ UNCHANGED <<x, y, S_x, S_x2, S_y, S_y2, call>>

\* Line 63: the loop is over and the five arrays are returned.
Return ==
    /\ pc = "loop"
    /\ u = n
    /\ pc' = "done"
    /\ UNCHANGED <<x, y, S_x, S_x2, S_y, S_y2, M, u, v, writes, rd, call>>

\* pearson_dist_metrics(qu, qv, ql, ...) on the returned arrays, for any in-range
\* window of length ql >= 1: loc and r are the locals and the value of its call
\* of pearson_metrics, for one of the results the library's pow can give, and
\* ret = np.sqrt(2 * (1 - r)) the value it returns.  The
\* arrays are read-only, so queries do not affect each other: a behaviour makes
\* one.
Query ==
    /\ pc = "done"
    /\ call.fn = "none"
    /\ \E qu \in 0..(n - 1), qv \in 0..(m - 1), ql \in 1..MaxLen :
          /\ qu + ql <= n
          /\ qv + ql <= m
          /\ \E p \in pearson_metrics_locals(qu, qv, ql, S_x, S_x2, S_y, S_y2, M) :
                \E r \in {pearson_metrics_return(p)} :
                   call' = [NoCall EXCEPT !.fn = "pearson_dist_metrics",
                                          !.u = qu, !.v = qv, !.l = ql,
                                          !.loc = p, !.r = r, !.ret = DistOf(r)]
    /\ pc' = "queried"
    /\ UNCHANGED <<x, y, S_x, S_x2, S_y, S_y2, M, u, v, writes, rd>>

\* z_norm(x / den).  The function has one argument: it is applied in the
\* states whose two sequences are the same.
CallZNorm ==
    /\ pc = "start"
    /\ y = x
    /\ \E den \in Dens :
          call' = [NoCall EXCEPT !.fn = "z_norm", !.den = den,
                                 !.ret = z_norm(Arr(x, den))]
    /\ pc' = "ret"
    /\ UNCHANGED <<x, y, S_x, S_x2, S_y, S_y2, M, u, v, writes, rd>>

\* norm_euclidean_distance(x, y), len(x) = len(y)
CallNormEuclid ==
    /\ pc = "start"
    /\ n = m
    /\ call' = [NoCall EXCEPT !.fn = "norm_euclidean_distance",
                              !.ret = norm_euclidean_distance(Arr(x, 1), Arr(y, 1))]
    /\ pc' = "ret"
    /\ UNCHANGED <<x, y, S_x, S_x2, S_y, S_y2, M, u, v, writes, rd>>

\* norm_euclidean_distance(z_norm(x), z_norm(y)), lines 100-103
CallNormEuclidZ ==
    /\ pc = "start"
    /\ n = m
    /\ call' = [NoCall EXCEPT !.fn = "norm_euclidean_distance_z",
                              !.ret = norm_euclidean_distance(z_norm(Arr(x, 1)),
                                                              z_norm(Arr(y, 1)))]
    /\ pc' = "ret"
    /\ UNCHANGED <<x, y, S_x, S_x2, S_y, S_y2, M, u, v, writes, rd>>

\* pearson_dist(x / den, y / den), len(x) = len(y): loc and r are the locals
\* and the value of its call of pearson and ret = np.sqrt(2 * (1 - r)) the
\* value it returns.
CallPearsonDist ==
    /\ pc = "start"
    /\ n = m
    /\ \E den \in Dens :
          \E ax \in {Arr(x, den)}, ay \in {Arr(y, den)} :
             \E p \in {pearson_locals(ax, ay)} :
                \E r \in {pearson_return(p, ax, ay)} :
                   call' = [NoCall EXCEPT !.fn = "pearson_dist", !.den = den,
                                          !.loc = p, !.r = r, !.ret = DistOf(r)]
    /\ pc' = "ret"
    /\ UNCHANGED <<x, y, S_x, S_x2, S_y, S_y2, M, u, v, writes, rd>>

\* The construction of the statistic arrays and the two elementary functions.
Next ==
    \/ Prefix
    \/ LoopStep
    \/ Return
    \/ CallZNorm
    \/ CallNormEuclid

Spec == Init /\ [][Next]_vars

\* The correlation functions, on raw sequences and on the returned arrays.
NextCorr ==
    \/ Prefix
    \/ LoopStep
    \/ Return
    \/ Query
    \/ CallNormEuclidZ
    \/ CallPearsonDist

SpecCorr == InitCorr /\ [][NextCorr]_vars


-----------------------------------------------------------------------------
\* Reference quantities, computed directly from the raw sequences

\* a[lo] + a[lo + 1] + ... over len elements
RECURSIVE DirectSum(_, _, _)
DirectSum(a, lo, len) ==
    IF len = 0 THEN 0 ELSE DirectSum(a, lo, len - 1) + a[lo + len - 1]

\* a[lo]*b[lo2] + a[lo + 1]*b[lo2 + 1] + ... over len products
RECURSIVE DirectCross(_, _, _, _, _)
DirectCross(a, lo, b, lo2, len) ==
    IF len = 0 THEN 0
    ELSE DirectCross(a, lo, b, lo2, len - 1) + a[lo + len - 1] * b[lo2 + len - 1]

NonConstant(a) == \E i, j \in DOMAIN a : a[i] # a[j]

\* The in-range queries (qu, qv, ql) with ql >= lmin.
Windows(lmin) ==
    {w \in (0..n) \X (0..m) \X (lmin..MaxLen) : w[1] + w[3] <= n /\ w[2] + w[3] <= m}

\* The windows of x and y that the last query was about.
xw == Slice(x, call.u, call.u + call.l)

yw == Slice(y, call.v, call.v + call.l)

Queried == call.fn = "pearson_dist_metrics"

\* Test 1, lines 86-89: the distance of np.array([1]*10) and np.array([0]*10).
TestLen == 10

Test1Distance ==
    norm_euclidean_distance([i \in 0..(TestLen - 1) |-> FOne],
                            [i \in 0..(TestLen - 1) |-> FZero])

-----------------------------------------------------------------------------
\* C2: once calculate_metric_arrays has returned, for every u, v and l >= 0
\* with u+l <= n and v+l <= m (u # v and n # m included), M[u+l, v+l] - M[u, v]
\* is the sum of x[u+i] * y[v+i] over i in [0, l).
C2_CrossTermIsWindowProductSum ==
    pc = "done" =>
        \A w \in Windows(0) :
            CrossTerm(w[1], w[2], w[3], M) = DirectCross(x, w[1], y, w[2], w[3])

\* calculate_metric_arrays has returned for sequences of different lengths, and
\* a window of length >= 2 that starts at different offsets has a non-zero sum.
C2_Witness ==
    /\ pc = "done"
    /\ n # m
    /\ \E w \in Windows(2) : w[1] # w[2] /\ CrossTerm(w[1], w[2], w[3], M) # 0

\* C5: the prefix arrays have lengths n+1 and m+1, start with 0, and their
\* differences are the window sums and window sums of squares of x and of y.
C5_PrefixSums ==
    pc = "done" =>
        /\ DOMAIN S_x = 0..n /\ DOMAIN S_x2 = 0..n
        /\ DOMAIN S_y = 0..m /\ DOMAIN S_y2 = 0..m
        /\ S_x[0] = 0 /\ S_x2[0] = 0 /\ S_y[0] = 0 /\ S_y2[0] = 0
        /\ \A a \in 0..n : \A l \in 0..(n - a) :
              /\ S_x[a + l] - S_x[a] = DirectSum(x, a, l)
              /\ S_x2[a + l] - S_x2[a] = DirectCross(x, a, x, a, l)
        /\ \A a \in 0..m : \A l \in 0..(m - a) :
              /\ S_y[a + l] - S_y[a] = DirectSum(y, a, l)
              /\ S_y2[a + l] - S_y2[a] = DirectCross(y, a, y, a, l)

\* The arrays exist for sequences of maximal, different-from-each-other content
\* with non-zero sums at an inner window.
C5_Witness ==
    /\ pc = "done"
    /\ n >= 3 /\ m >= 2
    /\ S_x[3] - S_x[1] < 0
    /\ S_x2[3] - S_x2[1] = 2
    /\ S_y2[m] - S_y2[1] > 0

\* C9: every iteration (u, v) of the loop reads exactly x[u] and y[v], both in
\* bounds, for all lengths n and m, so no read fails and every cell written so
\* far satisfies M[u+1, v+1] = M[u, v] + x[u] * y[v].
C9_LoopReadsXuYv ==
    /\ pc # "IndexError"
    /\ (pc = "loop" /\ u < n) =>
          /\ IndexX(u, v) = u /\ IndexX(u, v) \in DOMAIN x
          /\ IndexY(u, v) = v /\ IndexY(u, v) \in DOMAIN y
    /\ rd # <<>> => rd[1] \in DOMAIN x /\ rd[2] \in DOMAIN y
    /\ pc \in {"loop", "done"} =>
          \A a \in 0..(n - 1), b \in 0..(m - 1) :
              writes[a + 1][b + 1] > 0 => M[a + 1][b + 1] = M[a][b] + x[a] * y[b]

\* The loop has run both branches (u > v and u < v) on sequences of different
\* lengths and produced a non-zero cell.
C9_Witness ==
    /\ pc = "done"
    /\ n = 3 /\ m = 2
    /\ rd = <<2, 1>>
    /\ M[3][1] # 0 /\ M[1][2] # 0

\* C10: during the loop row 0 and column 0 of M are never written and stay 0,
\* no cell is written twice, the cells written so far are exactly those of the
\* iterations before (u, v) in loop order, so at the end every inner cell has
\* been written exactly once, and the cell M[u, v] that iteration (u, v) reads
\* is a boundary cell or has already been written (by iteration (u-1, v-1)).
C10_WriteOnceReadFinal ==
    pc \in {"loop", "done"} =>
        /\ \A i \in 0..n : M[i][0] = 0 /\ writes[i][0] = 0
        /\ \A j \in 0..m : M[0][j] = 0 /\ writes[0][j] = 0
        /\ \A i \in 1..n, j \in 1..m :
              writes[i][j] =
                  IF i - 1 < u \/ (i - 1 = u /\ j - 1 < v) THEN 1 ELSE 0
        /\ pc = "done" => \A i \in 1..n, j \in 1..m : writes[i][j] = 1
        /\ (pc = "loop" /\ u < n) =>
              LET r == ReadCell(u, v)
              IN r[1] = 0 \/ r[2] = 0 \/ writes[r[1]][r[2]] = 1

\* The loop is about to read an inner cell that an earlier iteration wrote with
\* a non-zero value.
C10_Witness ==
    /\ pc = "loop"
    /\ u = 2 /\ v = 1
    /\ writes[2][1] = 1
    /\ M[2][1] # 0

-----------------------------------------------------------------------------
\* C6: for non-constant x, z_norm(x) has mean 0 and standard deviation 1: its
\* elements sum to 0 and their squares sum to len(x), all up to the rounding
\* of float64 (np.testing.assert_almost_equal accepts the four values).
C6_ZNormMeanZeroStdOne ==
    (call.fn = "z_norm" /\ NonConstant(x)) =>
        /\ \A i \in DOMAIN call.ret : IsFinite(call.ret[i])
        /\ AlmostEqual(NpMean(call.ret), FZero)
        /\ AlmostEqual(NpStd(call.ret), FOne)
        /\ AlmostEqual(NpSum(call.ret), FZero)
        /\ AlmostEqual(NpSum([i \in DOMAIN call.ret |-> FMul(call.ret[i], call.ret[i])]),
                       FromInt(n))

\* z_norm was applied to a non-constant sequence of decimal fractions of
\* length 3 with non-zero mean, and rounding shows in the result: its sum is
\* not exactly 0.
C6_Witness ==
    /\ call.fn = "z_norm"
    /\ call.den = 10
    /\ n = 3
    /\ NonConstant(x)
    /\ DirectSum(x, 0, n) # 0
    /\ NpSum(call.ret) # FZero

\* C7: norm_euclidean_distance(x, y) >= 0 for all equal-length x and y, and it
\* is |c|, up to the rounding of float64, when x[i] - y[i] = c at every
\* position, whatever the length; for x all ones and y all zeros it is exactly
\* 1.0, at every length of the model and at length 10, as line 89 asserts.
C7_ConstantOffsetDistance ==
    call.fn = "norm_euclidean_distance" =>
        /\ IsFinite(call.ret)
        /\ FLe(FZero, call.ret)
        /\ \A c \in (0 - 2 * MaxVal - 2)..(2 * MaxVal + 2) :
              (\A i \in DOMAIN x : x[i] - y[i] = c) =>
                  AlmostEqual(call.ret, FromInt(Abs(c)))
        /\ (\A i \in DOMAIN x : x[i] = 1 /\ y[i] = 0) =>
              call.ret = FOne /\ Test1Distance = FOne

\* The distance of two sequences of length 3 that differ by -2 everywhere.
C7_Witness ==
    /\ call.fn = "norm_euclidean_distance"
    /\ n = 3
    /\ \A i \in DOMAIN x : x[i] - y[i] = -2
    /\ call.ret = FTwo

-----------------------------------------------------------------------------
\* The claims about the correlation functions, as stated.  float64 rounding
\* refutes each of them on some input of SpecCorr.

\* C4: for non-constant equal-length sequences (pearson) and for in-range
\* queries on non-constant windows (pearson_metrics) the correlation r lies in
\* [-1, 1], so 2 (1 - r) >= 0 and the distance returned is a number >= 0.
C4_CorrelationInUnitInterval ==
    (\/ call.fn = "pearson_dist" /\ NonConstant(x) /\ NonConstant(y)
     \/ Queried /\ NonConstant(xw) /\ NonConstant(yw)) =>
        /\ FLe(FNeg(FOne), call.r)
        /\ FLe(call.r, FOne)
        /\ FLe(FZero, FMul(FTwo, FSub(FOne, call.r)))
        /\ FLe(FZero, call.ret)

\* C3: for equal-length non-constant x and y,
\* norm_euclidean_distance(z_norm(x), z_norm(y)) = pearson_dist(x, y), that is,
\* the squared distance of the z-normalised sequences is 2 (1 - pearson(x, y));
\* equality as np.testing.assert_almost_equal judges it at lines 99-102.
C3_ZNormDistanceIsPearsonDist ==
    (call.fn = "norm_euclidean_distance_z" /\ NonConstant(x) /\ NonConstant(y)) =>
        /\ AlmostEqual(call.ret, pearson_dist(Arr(x, 1), Arr(y, 1)))
        /\ AlmostEqual(FMul(call.ret, call.ret),
                       FMul(FTwo, FSub(FOne, pearson(Arr(x, 1), Arr(y, 1)))))

\* C1: for every in-range window (u, v, l), l >= 1, whose two windows are
\* non-constant, pearson_metrics returns pearson(x[u:u+l], y[v:v+l]) and
\* pearson_dist_metrics returns pearson_dist(x[u:u+l], y[v:v+l]), and the
\* window means, standard deviations and cross term recovered from the arrays
\* are the directly computed ones; equality as np.testing.assert_almost_equal
\* judges it at lines 108-123.
C1_WindowedEqualsDirect ==
    (Queried /\ NonConstant(xw) /\ NonConstant(yw)) =>
        LET d == pearson_locals(Arr(xw, 1), Arr(yw, 1))
            r == pearson_return(d, Arr(xw, 1), Arr(yw, 1))
        IN  /\ AlmostEqual(call.r, r)
            /\ AlmostEqual(call.ret, DistOf(r))
            /\ AlmostEqual(call.loc.mu_x, d.mu_x)
            /\ AlmostEqual(call.loc.mu_y, d.mu_y)
            /\ AlmostEqual(call.loc.sigma_x, d.sigma_x)
            /\ AlmostEqual(call.loc.sigma_y, d.sigma_y)
            /\ call.loc.xy = FromInt(DirectCross(xw, 0, yw, 0, call.l))

\* C8: pearson (on equal-length sequences) and pearson_metrics (on in-range
\* queries) divide by zero exactly when one of the two windows is constant,
\* that is, has zero variance; then the result is NaN or +-Inf and no error is
\* raised, and otherwise the result is finite.
C8_ZeroVarianceOnlySingularity ==
    /\ Queried =>
          LET zero == ~NonConstant(xw) \/ ~NonConstant(yw)
          IN  /\ (pearson_metrics_divisor(call.loc) = FZero) <=> zero
              /\ zero => ~IsFinite(call.r)
              /\ ~zero => IsFinite(call.r)
              /\ pc = "queried"
    /\ call.fn = "pearson_dist" =>
          LET zero == ~NonConstant(x) \/ ~NonConstant(y)
          IN  /\ (pearson_divisor(call.loc) = FZero) <=> zero
              /\ zero => ~IsFinite(call.r)
              /\ ~zero => IsFinite(call.r)
              /\ pc = "ret"

====
